---------------------------- MODULE Spec2Model ----------------------------
(***************************************************************************)
(* Model of encoding/fasta/fasta_indexed.go: the indexed FASTA reader.     *)
(*                                                                         *)
(* Text is modelled as sequences of one-character strings.  A Go byte      *)
(* slice is a record [off, len, cap] over a backing array; the array is    *)
(* kept as the sequence of the bytes written so far, every byte behind it  *)
(* being the zero byte that make() leaves.                                 *)
(***************************************************************************)
EXTENDS Integers, Sequences, FiniteSets, TLC

(***************************************************************************)
(* Bounds of the model.                                                    *)
(***************************************************************************)
\* Largest number of bases per line of a generated layout.
MaxLineBase == 2
\* Largest number of line-break bytes per line of a generated layout.
MaxNewline == 1
\* Largest sequence length of a generated layout.
MaxSeqLen == 3

(***************************************************************************)
(* Characters and bytes.                                                   *)
(***************************************************************************)
TAB == "\t"
LF == "\n"
CR == "\r"
\* The zero byte of a freshly made slice.
NUL == "NUL"
Digit == {"0", "1", "2", "3", "4", "5", "6", "7", "8", "9"}
\* The class \s of the regular expression: [\t\n\f\r ].
Space == {" ", TAB, LF, CR, "\f"}
LineBreakByte == {LF, CR}

Min(a, b) == IF a < b THEN a ELSE b
Max(a, b) == IF a < b THEN b ELSE a

DigitVal(c) ==
  CASE c = "0" -> 0 [] c = "1" -> 1 [] c = "2" -> 2 [] c = "3" -> 3
    [] c = "4" -> 4 [] c = "5" -> 5 [] c = "6" -> 6 [] c = "7" -> 7
    [] c = "8" -> 8 [] c = "9" -> 9

DigitChar(d) == <<"0", "1", "2", "3", "4", "5", "6", "7", "8", "9">>[d + 1]

\* The decimal text of n.
RECURSIVE Dec(_)
Dec(n) == IF n < 10 THEN <<DigitChar(n)>> ELSE Dec(n \div 10) \o <<DigitChar(n % 10)>>

(***************************************************************************)
(* strconv.ParseUint(s, 10, 64) on a non-empty digit string.               *)
(***************************************************************************)
\* The digits of 2^64 - 1.
MaxUint64Digits ==
  <<"1","8","4","4","6","7","4","4","0","7","3","7","0","9","5","5","1","6","1","5">>

RECURSIVE StripZeros(_)
StripZeros(ds) ==
  IF Len(ds) > 1 /\ ds[1] = "0" THEN StripZeros(Tail(ds)) ELSE ds

\* ds > 2^64 - 1, compared digit by digit (the value does not fit a machine word).
ExceedsUint64(ds) ==
  LET s == StripZeros(ds) IN
    \/ Len(s) > Len(MaxUint64Digits)
    \/ /\ Len(s) = Len(MaxUint64Digits)
       /\ \E i \in 1..Len(s) :
            /\ DigitVal(s[i]) > DigitVal(MaxUint64Digits[i])
            /\ \A j \in 1..(i - 1) : s[j] = MaxUint64Digits[j]

RECURSIVE DecValue(_)
DecValue(ds) ==
  IF ds = <<>> THEN 0
  ELSE 10 * DecValue(SubSeq(ds, 1, Len(ds) - 1)) + DigitVal(ds[Len(ds)])

ParseUint(ds) ==
  IF ExceedsUint64(ds) THEN [err |-> TRUE, val |-> 0]
  ELSE [err |-> FALSE, val |-> DecValue(StripZeros(ds))]


(***************************************************************************)
(* bufio.ScanLines over the index text: the text is cut at each "\n", one  *)
(* trailing "\r" of a line is dropped, an empty line is a token, and what  *)
(* follows the last "\n" is a token only when it is not empty.             *)
(***************************************************************************)
DropCR(line) ==
  IF Len(line) > 0 /\ line[Len(line)] = CR THEN SubSeq(line, 1, Len(line) - 1) ELSE line

RECURSIVE ScanLines(_)
ScanLines(text) ==
  IF text = <<>> THEN <<>>
  ELSE IF \E i \in 1..Len(text) : text[i] = LF
       THEN LET i == CHOOSE k \in 1..Len(text) :
                       text[k] = LF /\ \A j \in 1..(k - 1) : text[j] # LF
            IN <<DropCR(SubSeq(text, 1, i - 1))>> \o ScanLines(SubSeq(text, i + 1, Len(text)))
       ELSE <<DropCR(text)>>

(***************************************************************************)
(* indexRegExp = (\S+)\t(\d+)\t(\d+)\t(\d+)\t(\d+), not anchored.          *)
(* FindStringSubmatch returns the leftmost match.  From a given start the  *)
(* match is unique: \S+ and \d+ are greedy and neither class holds "\t",   *)
(* so each group is the maximal run of its class.                          *)
(***************************************************************************)
\* The last index of the maximal run of non-space characters that starts at i
\* (i - 1: no run).
NonSpaceRunEnd(line, i) ==
  CHOOSE j \in (i - 1)..Len(line) :
    /\ \A k \in i..j : line[k] \notin Space
    /\ (j < Len(line) => line[j + 1] \in Space)

\* The same for digits.
DigitRunEnd(line, i) ==
  CHOOSE j \in (i - 1)..Len(line) :
    /\ \A k \in i..j : line[k] \in Digit
    /\ (j < Len(line) => line[j + 1] \notin Digit)

NoMatch == [ok |-> FALSE]

TabAt(line, i) == i <= Len(line) /\ line[i] = TAB

MatchAt(line, i) ==
  LET e1 == NonSpaceRunEnd(line, i)
      e2 == DigitRunEnd(line, e1 + 2)
      e3 == DigitRunEnd(line, e2 + 2)
      e4 == DigitRunEnd(line, e3 + 2)
      e5 == DigitRunEnd(line, e4 + 2)
  IN IF /\ e1 >= i /\ TabAt(line, e1 + 1)
        /\ e2 >= e1 + 2 /\ TabAt(line, e2 + 1)
        /\ e3 >= e2 + 2 /\ TabAt(line, e3 + 1)
        /\ e4 >= e3 + 2 /\ TabAt(line, e4 + 1)
        /\ e5 >= e4 + 2
     THEN [ok |-> TRUE,
           name |-> SubSeq(line, i, e1),
           length |-> SubSeq(line, e1 + 2, e2),
           offset |-> SubSeq(line, e2 + 2, e3),
           lineBase |-> SubSeq(line, e3 + 2, e4),
           lineWidth |-> SubSeq(line, e4 + 2, e5)]
     ELSE NoMatch

FindStringSubmatch(line) ==
  IF \E i \in 1..Len(line) : MatchAt(line, i).ok
  THEN MatchAt(line, CHOOSE i \in 1..Len(line) :
                       MatchAt(line, i).ok /\ \A j \in 1..(i - 1) : ~MatchAt(line, j).ok)
  ELSE NoMatch

(***************************************************************************)
(* parseIndex: one entry per line, in file order.  A line the expression   *)
(* does not match ends the parse with an error; a numeric field ParseUint  *)
(* rejects reaches must.Nil, which aborts the program.                     *)
(***************************************************************************)
RECURSIVE parseLines(_, _)
parseLines(lines, entries) ==
  IF lines = <<>> THEN [kind |-> "ok", entries |-> entries]
  ELSE LET m == FindStringSubmatch(Head(lines)) IN
    IF ~m.ok THEN [kind |-> "error", entries |-> <<>>]
    ELSE LET length == ParseUint(m.length)
             offset == ParseUint(m.offset)
             lineBase == ParseUint(m.lineBase)
             lineWidth == ParseUint(m.lineWidth)
         IN IF length.err \/ offset.err \/ lineBase.err \/ lineWidth.err
            THEN [kind |-> "panic", entries |-> <<>>]
            ELSE parseLines(Tail(lines),
                            Append(entries, [name |-> m.name, length |-> length.val,
                                             offset |-> offset.val,
                                             lineBase |-> lineBase.val,
                                             lineWidth |-> lineWidth.val]))

parseIndex(text) == parseLines(ScanLines(text), <<>>)

(***************************************************************************)
(* newLazyIndexed: the map keeps the last entry of each name; seqNames is  *)
(* the map's keys, appended in the map's (unspecified) iteration order and *)
(* then stably sorted by offset: any order of the names with               *)
(* non-decreasing offsets can come out.                                    *)
(***************************************************************************)
EntryNames(entries) == {entries[i].name : i \in 1..Len(entries)}

\* Mutation: the first entry of a name is kept.
SeqsOfFirst(entries) ==
  [n \in EntryNames(entries) |->
     entries[CHOOSE i \in 1..Len(entries) :
               entries[i].name = n /\ \A j \in 1..(i - 1) : entries[j].name # n]]

SeqsOf(entries) ==
  [n \in EntryNames(entries) |->
     entries[CHOOSE i \in 1..Len(entries) :
               entries[i].name = n /\ \A j \in (i + 1)..Len(entries) : entries[j].name # n]]

\* Mutation: the keys are left in the map's order, unsorted.
SeqNamesUnsorted(m) ==
  LET names == DOMAIN m
      k == Cardinality(names)
  IN {s \in [1..k -> names] : \A i, j \in 1..k : i # j => s[i] # s[j]}

SeqNamesOrders(m) ==
  LET names == DOMAIN m
      k == Cardinality(names)
  IN {s \in [1..k -> names] :
        /\ \A i, j \in 1..k : i # j => s[i] # s[j]
        /\ \A i \in 1..(k - 1) : ~(m[s[i + 1]].offset < m[s[i]].offset)}

(***************************************************************************)
(* Inputs: index texts and byte sources.                                   *)
(*                                                                         *)
(* A generated input is a FASTA file of one sequence "s1" behind a         *)
(* four-byte header, laid out with b bases and nl line-break bytes per     *)
(* line, together with the index line that describes it.  The last line    *)
(* carries its line break when term holds.  Every base of the sequence is  *)
(* a different letter, so a shifted or repeated base shows in a result.    *)
(***************************************************************************)
Bases == <<"A", "C", "G", "T", "N", "R", "Y", "K", "M", "S", "W", "B">>
Name1 == <<"s", "1">>
Name2 == <<"s", "2">>
Absent == <<"z", "z">>
Header1 == <<">", "s", "1", LF>>

RECURSIVE Break(_)
Break(nl) == IF nl = 0 THEN <<>> ELSE IF nl = 1 THEN <<LF>> ELSE <<CR>> \o Break(nl - 1)

RECURSIVE DataLines(_, _, _, _, _)
DataLines(p, b, nl, L, term) ==
  IF p = L THEN <<>>
  ELSE <<Bases[p + 1]>>
         \o (IF (p + 1 = L /\ term) \/ (p + 1 < L /\ (p + 1) % b = 0) THEN Break(nl) ELSE <<>>)
         \o DataLines(p + 1, b, nl, L, term)

IndexLine(name, L, off, b, w) ==
  name \o <<TAB>> \o Dec(L) \o <<TAB>> \o Dec(off) \o <<TAB>> \o Dec(b) \o <<TAB>> \o Dec(w)
    \o <<LF>>

\* The calls issued against a sequence of length L: every start and end up to
\* one past the length, and a few calls that name a sequence the index lacks.
CallsOn(name, L) ==
  {<<name, s, e>> : s \in 0..(L + 1), e \in 0..(L + 1)}
    \cup {<<Absent, s, e>> : s \in 0..1, e \in 0..1}

Generated(b, nl, L, term) ==
  [index |-> IndexLine(Name1, L, Len(Header1), b, b + nl),
   src |-> Header1 \o DataLines(0, b, nl, L, term),
   reader |-> "file",
   calls |-> CallsOn(Name1, L)]

GeneratedInputs ==
  {Generated(b, nl, L, term) :
     b \in 1..MaxLineBase, nl \in 0..MaxNewline, L \in 1..MaxSeqLen, term \in BOOLEAN}

\* The example of the specification: "seq1\t10\t0\t4\t5" over "ACGT\nACGT\nAC\n".
SeqOne == <<"s", "e", "q", "1">>
WorkedIndex == SeqOne \o <<TAB, "1", "0", TAB, "0", TAB, "4", TAB, "5", LF>>
WorkedSrc == <<"A", "C", "G", "T", LF, "A", "C", "G", "T", LF, "A", "C", LF>>
WorkedInput ==
  [index |-> WorkedIndex, src |-> WorkedSrc, reader |-> "file",
   calls |-> {<<SeqOne, 2, 8>>, <<SeqOne, 2, 6>>, <<SeqOne, 0, 10>>, <<SeqOne, 8, 10>>}]

\* Index texts with a line that is not five tab-separated fields, over the file
\* of two bases per line: a missing field, an empty line, a field too many
\* behind, a field too many in front, and a length that does not fit 64 bits.
Plain == Generated(2, 1, 3, TRUE)
FewCalls == {<<Name1, 0, 3>>, <<Name1, 1, 2>>}
Twenty9s == [i \in 1..20 |-> "9"]
MalformedIndexes ==
  {Name1 \o <<TAB, "3", TAB, "4", TAB, "2", LF>>,
   Plain.index \o <<LF>> \o IndexLine(Name2, 1, 4, 2, 3),
   Name1 \o <<TAB, "3", TAB, "4", TAB, "2", TAB, "3", TAB, "x", LF>>,
   <<"x", TAB>> \o Plain.index,
   Name1 \o <<TAB>> \o Twenty9s \o <<TAB, "4", TAB, "2", TAB, "3", LF>>}
MalformedInputs ==
  {[index |-> t, src |-> Plain.src, reader |-> "file", calls |-> FewCalls] : t \in MalformedIndexes}

\* A file of two sequences, ">s1\nAC\n>s2\nG\n", under three index texts:
\* its lines in the reverse of the file's order; the name s1 on two lines,
\* the first giving it the place and length of s2; and two names at one offset.
TwoSrc == Header1 \o <<"A", "C", LF, ">", "s", "2", LF, "G", LF>>
ReversedIndex == IndexLine(Name2, 1, 11, 2, 3) \o IndexLine(Name1, 2, 4, 2, 3)
DuplicateIndex ==
  IndexLine(Name1, 1, 11, 2, 3) \o IndexLine(Name2, 1, 11, 2, 3) \o IndexLine(Name1, 2, 4, 2, 3)
EqualOffsetIndex == IndexLine(Name1, 2, 4, 2, 3) \o IndexLine(Name2, 2, 4, 2, 3)
TwoCalls == {<<Name1, 0, 2>>, <<Name1, 0, 1>>, <<Name2, 0, 1>>}
TwoInputs ==
  {[index |-> t, src |-> TwoSrc, reader |-> "file", calls |-> TwoCalls] :
     t \in {ReversedIndex, DuplicateIndex, EqualOffsetIndex}}

\* An engine built on the index alone, with no byte source.
NilCalls == {<<Name1, 0, 3>>, <<Name1, 2, 1>>, <<Name1, 0, 4>>, <<Absent, 0, 1>>}
NilInput == [index |-> Plain.index, src |-> <<>>, reader |-> "nil", calls |-> NilCalls]

Inputs == GeneratedInputs \cup {WorkedInput} \cup MalformedInputs \cup TwoInputs \cup {NilInput}

(***************************************************************************)
(* State.                                                                  *)
(***************************************************************************)
VARIABLES
  phase,      \* "new" before NewIndexed, then "ready", "formatError" or "panic"
  indexText,  \* the index text handed to NewIndexed
  calls,      \* the (name, start, end) triples the callers issue
  seqs,       \* indexedFasta.seqs
  seqNames,   \* indexedFasta.seqNames
  src,        \* the bytes behind indexedFasta.reader
  reader,     \* indexedFasta.reader: "file", or "nil" when NewIndexed was given none
  pos,        \* the seek position of indexedFasta.reader
  bufOff,     \* indexedFasta.bufOff
  buf,        \* indexedFasta.buf
  resultBuf,  \* indexedFasta.resultBuf
  mutex,      \* indexedFasta.mutex: 0 when free, else the caller holding it
  pc,         \* where each caller is in Get
  call,       \* each caller's arguments, locals and return value
  faulted,    \* the byte source has misbehaved (it does so at most once)
  trial       \* the results of the calls a test made back to back

vars == <<phase, indexText, calls, seqs, seqNames, src, reader, pos, bufOff, buf, resultBuf,
          mutex, pc, call, faulted, trial>>

Callers == {1, 2}
Solo == {1}

\* A nil slice, make([]byte, n), and the byte at index i of a backing array.
NilSlice == [arr |-> <<>>, len |-> 0, cap |-> 0]
MakeSlice(n) == [arr |-> <<>>, len |-> n, cap |-> n]
ByteAt(arr, i) == IF i < Len(arr) THEN arr[i + 1] ELSE NUL
\* The backing array after bytes were written from its index 0 on.
Overwrite(arr, bytes) == bytes \o SubSeq(arr, Len(bytes) + 1, Len(arr))

NoRes == [kind |-> "none", err |-> "", str |-> <<>>]
Ok(str) == [kind |-> "ok", err |-> "", str |-> str]
Err(e) == [kind |-> "err", err |-> e, str |-> <<>>]
Panic == [kind |-> "panic", err |-> "", str |-> <<>>]

NoRead == [k |-> 0, err |-> "none", avail |-> 0, want |-> 0]
NoCall == [name |-> <<>>, start |-> 0, end |-> 0, off |-> 0, n |-> 0, lo |-> 0,
           seeks |-> 0, reads |-> 0, rd |-> NoRead, res |-> NoRes]
NoLen == [kind |-> "none", val |-> 0]
NoFai == [kind |-> "none", map |-> <<>>]
NoTrial == [kind |-> "none", name |-> <<>>, k |-> 0, mid |-> 0, r1 |-> NoRes, r2 |-> NoRes,
            r3 |-> NoRes, len |-> NoLen, names |-> <<>>, fai |-> NoFai]

\* The mutable part of the engine and of its reader, as one value.
Eng == [pos |-> pos, bufOff |-> bufOff, buf |-> buf, resultBuf |-> resultBuf]
SetEng(E) ==
  /\ pos' = E.pos
  /\ bufOff' = E.bufOff
  /\ buf' = E.buf
  /\ resultBuf' = E.resultBuf

Init ==
  /\ phase = "new"
  /\ indexText = <<>>
  /\ calls = {}
  /\ seqs = <<>>
  /\ seqNames = <<>>
  /\ src = <<>>
  /\ reader = "file"
  /\ pos = 0
  /\ bufOff = 0
  /\ buf = NilSlice
  /\ resultBuf = NilSlice
  /\ mutex = 0
  /\ pc = [p \in Callers |-> "idle"]
  /\ call = [p \in Callers |-> NoCall]
  /\ faulted = FALSE
  /\ trial = NoTrial

(***************************************************************************)
(* NewIndexed(fasta, index): parseIndex, then newLazyIndexed.              *)
(***************************************************************************)
NewIndexedOn(inputs) ==
  /\ phase = "new"
  /\ \E in \in inputs :
       LET parsed == parseIndex(in.index) IN
         /\ indexText' = in.index
         /\ IF parsed.kind = "ok"
            THEN /\ phase' = "ready"
                 /\ seqs' = SeqsOf(parsed.entries)
                 /\ seqNames' \in SeqNamesOrders(SeqsOf(parsed.entries))
                 /\ src' = in.src
                 /\ reader' = in.reader
                 /\ calls' = in.calls
            ELSE /\ phase' = IF parsed.kind = "error" THEN "formatError" ELSE "panic"
                 /\ UNCHANGED <<seqs, seqNames, src, reader, calls>>
  /\ UNCHANGED <<pos, bufOff, buf, resultBuf, mutex, pc, call, faulted, trial>>

NewIndexed == NewIndexedOn(Inputs)

(***************************************************************************)
(* The parts of Get and read, as operators on the engine value E.          *)
(***************************************************************************)
\* The least size of a refill.
bufSize == 8192

resizeBuf(slice, n) ==
  IF slice.cap < n THEN MakeSlice(n) ELSE [slice EXCEPT !.len = n]

\* Mutation: the bound check lets an end one past the length through.
CheckArgsLoose(name, start, end) ==
  IF end <= start THEN Err("InvalidRange")
  ELSE IF name \notin DOMAIN seqs THEN Err("NotFound")
  ELSE IF end > seqs[name].length + 1 THEN Err("OutOfBounds")
  ELSE NoRes

\* Mutation: the name is looked up before the range is checked.
CheckArgsNameFirst(name, start, end) ==
  IF name \notin DOMAIN seqs THEN Err("NotFound")
  ELSE IF end <= start THEN Err("InvalidRange")
  ELSE IF end > seqs[name].length THEN Err("OutOfBounds")
  ELSE NoRes

\* The checks of Get, in the order Get makes them.
CheckArgs(name, start, end) ==
  IF end <= start THEN Err("InvalidRange")
  ELSE IF name \notin DOMAIN seqs THEN Err("NotFound")
  ELSE IF end > seqs[name].length THEN Err("OutOfBounds")
  ELSE NoRes

charsPerNewline(ent) == ent.lineWidth - ent.lineBase

\* Mutation: the line breaks before start are not counted.
offsetOfNoBreaks(ent, start) == ent.offset + start

offsetOf(ent, start) ==
  ent.offset + start + charsPerNewline(ent) * (start \div ent.lineBase)

firstLineBases(ent, start) == ent.lineBase - (start % ent.lineBase)

\* Mutation: one line break more than Get counts.
newlinesToReadRoundUp(ent, start, end) ==
  IF end - start > firstLineBases(ent, start)
  THEN 2 + (end - start - firstLineBases(ent, start)) \div ent.lineBase
  ELSE 0

newlinesToRead(ent, start, end) ==
  IF end - start > firstLineBases(ent, start)
  THEN 1 + (end - start - firstLineBases(ent, start)) \div ent.lineBase
  ELSE 0

\* Mutation: the line breaks inside the range are not counted.
capacityNoBreaks(ent, start, end) == end - start

capacity(ent, start, end) ==
  end - start + newlinesToRead(ent, start, end) * charsPerNewline(ent)

\* Mutation: only the start of the range is tested against the window.
InWindowStart(E, off, n) == ~(off < E.bufOff \/ off >= E.bufOff + E.buf.len)

\* read: the range [off, off + n) lies in the cached window.
InWindow(E, off, n) == ~(off < E.bufOff \/ off + n > E.bufOff + E.buf.len)

\* What reader.Read returns for a buffer of want bytes, by the reader's mood.
\* As a file does: all the bytes up to the end of the source, with io.EOF once
\* none is left ("file") or together with the last bytes ("eof").  As a fault:
\* fewer bytes than there are, one short of the n asked for ("short-") or just
\* n ("short"); or an I/O error after n - 1 ("io-") or n ("io") bytes.
ReadModes == {"file", "eof", "short-", "short", "io-", "io"}
FaultModes == {"short-", "short", "io-", "io"}

ReadOutcome(E, want, n, mode) ==
  LET avail == Max(0, Len(src) - E.pos)
      full == Min(want, avail)
      k == CASE mode \in {"file", "eof"} -> full
             [] mode \in {"short-", "io-"} -> n - 1
             [] mode \in {"short", "io"} -> n
  IN [k |-> k,
      err |-> CASE mode = "file" -> IF full = 0 THEN "EOF" ELSE "nil"
                [] mode = "eof" -> "EOF"
                [] mode \in {"short-", "short"} -> "nil"
                [] mode \in {"io-", "io"} -> "IOErr",
      avail |-> avail,
      possible |-> CASE mode = "file" -> TRUE
                     [] mode = "eof" -> full = avail
                     [] mode \in {"short-", "short"} -> 1 <= k /\ k < full
                     [] mode \in {"io-", "io"} -> k <= full]

\* The refill of read after the seek: resizeBuf, one Read, then the checks in
\* read's order.  res is NoRes when read goes on to return the slice.
FillOp(E, off, n, mode) ==
  LET want == Max(bufSize, n)
      sized == resizeBuf(E.buf, want)
      r == ReadOutcome(E, want, n, mode)
      filled == [sized EXCEPT !.arr = Overwrite(sized.arr, SubSeq(src, E.pos + 1, E.pos + r.k))]
      read == [E EXCEPT !.pos = E.pos + r.k, !.buf = filled]
      rd == [k |-> r.k, err |-> r.err, avail |-> r.avail, want |-> sized.len]
  IN IF r.k < n THEN [E |-> read, rd |-> rd, res |-> Err("UnexpectedEOF")]
     ELSE IF r.err # "nil" /\ r.err # "EOF" THEN [E |-> read, rd |-> rd, res |-> Err("IOError")]
     ELSE [E |-> [read EXCEPT !.bufOff = off, !.buf = [filled EXCEPT !.len = r.k]],
           rd |-> rd, res |-> NoRes]

\* Mutation: the first byte of each line break is copied too.
RECURSIVE CopiedOffByOne(_, _, _, _)
CopiedOffByOne(view, i, linePos, ent) ==
  IF i > Len(view) THEN <<>>
  ELSE (IF linePos <= ent.lineBase THEN <<view[i]>> ELSE <<>>)
         \o CopiedOffByOne(view, i + 1, IF linePos + 1 = ent.lineWidth THEN 0 ELSE linePos + 1, ent)

\* The bytes the walk copies: those at a cycle position below lineBase.
RECURSIVE Copied(_, _, _, _)
Copied(view, i, linePos, ent) ==
  IF i > Len(view) THEN <<>>
  ELSE (IF linePos < ent.lineBase THEN <<view[i]>> ELSE <<>>)
         \o Copied(view, i + 1, IF linePos + 1 = ent.lineWidth THEN 0 ELSE linePos + 1, ent)

\* Mutation: the walk starts every slice at the head of a line.
linePosZero(ent, off) == 0

\* The cycle position of the first byte of the slice.
linePosAt(ent, off) == (off - ent.offset) % ent.lineWidth

\* The walk over the slice buf[lo : lo + n] that read returned, into resultBuf,
\* and string(resultBuf).  A write past the end of resultBuf panics.
WalkOp(E, ent, start, end, off, n, lo) ==
  LET view == [i \in 1..n |-> ByteAt(E.buf.arr, lo + i - 1)]
      sized == resizeBuf(E.resultBuf, end - start)
      copied == Copied(view, 1, linePosAt(ent, off), ent)
      kept == SubSeq(copied, 1, Min(Len(copied), sized.len))
      arr == Overwrite(sized.arr, kept)
  IN [E |-> [E EXCEPT !.resultBuf = [sized EXCEPT !.arr = arr]],
      res |-> IF Len(copied) > sized.len THEN Panic
              ELSE Ok([i \in 1..sized.len |-> ByteAt(arr, i - 1)])]

\* One whole Get on E, the reader in the given mood when Get refills.
GetOp(E, name, start, end, mode) ==
  IF CheckArgs(name, start, end) # NoRes
  THEN [E |-> E, res |-> CheckArgs(name, start, end)]
  ELSE LET ent == seqs[name]
           off == offsetOf(ent, start)
           n == capacity(ent, start, end)
       IN IF InWindow(E, off, n)
          THEN WalkOp(E, ent, start, end, off, n, off - E.bufOff)
          ELSE IF reader = "nil" THEN [E |-> E, res |-> Panic]
          ELSE LET f == FillOp([E EXCEPT !.pos = off], off, n, mode)
               IN IF f.res # NoRes THEN [E |-> f.E, res |-> f.res]
                  ELSE WalkOp(f.E, ent, start, end, off, n, 0)

(***************************************************************************)
(* Get(seqName, start, end), one action per step of the call.  A caller's  *)
(* arguments are its own until Get first reads them, which is after        *)
(* mutex.Lock() returned: they are drawn there.                            *)
(***************************************************************************)
\* Mutation: Lock returns whether or not the mutex is held.
LockAlways == TRUE

\* mutex.Lock() returns only when no caller holds the mutex.
LockFree == mutex = 0

CallGet(p) ==
  /\ phase = "ready"
  /\ pc[p] = "idle"
  /\ pc' = [pc EXCEPT ![p] = "lock"]
  /\ trial' = NoTrial
  /\ UNCHANGED <<phase, indexText, calls, seqs, seqNames, src, reader, pos, bufOff, buf,
                 resultBuf, mutex, call, faulted>>

Lock(p) ==
  /\ pc[p] = "lock"
  /\ LockFree
  /\ mutex' = p
  /\ pc' = [pc EXCEPT ![p] = "begin"]
  /\ UNCHANGED <<phase, indexText, calls, seqs, seqNames, src, reader, pos, bufOff, buf,
                 resultBuf, call, faulted, trial>>

\* The argument checks, the translation to a byte range, and read's test of the window.
Begin(p) ==
  /\ pc[p] = "begin"
  /\ \E c \in calls :
       LET name == c[1]
           start == c[2]
           end == c[3]
           bad == CheckArgs(name, start, end)
           args == [NoCall EXCEPT !.name = name, !.start = start, !.end = end]
       IN IF bad # NoRes
          THEN /\ call' = [call EXCEPT ![p] = [args EXCEPT !.res = bad]]
               /\ pc' = [pc EXCEPT ![p] = "ret"]
          ELSE LET ent == seqs[name]
                   off == offsetOf(ent, start)
                   n == capacity(ent, start, end)
               IN /\ call' = [call EXCEPT ![p] =
                                [args EXCEPT !.off = off, !.n = n, !.lo = off - bufOff]]
                  /\ pc' = [pc EXCEPT ![p] = IF InWindow(Eng, off, n) THEN "walk" ELSE "seek"]
  /\ UNCHANGED <<phase, indexText, calls, seqs, seqNames, src, reader, pos, bufOff, buf,
                 resultBuf, mutex, faulted, trial>>

\* reader.Seek(off, io.SeekStart): it lands on off, or (a fault) it returns an
\* error or reports another offset, which read answers alike.  The call on a
\* nil reader panics.
Seek(p) ==
  /\ pc[p] = "seek"
  /\ \/ /\ reader # "nil"
        /\ pos' = call[p].off
        /\ pc' = [pc EXCEPT ![p] = "fill"]
        /\ call' = [call EXCEPT ![p].seeks = @ + 1]
        /\ UNCHANGED faulted
     \/ /\ reader # "nil"
        /\ ~faulted
        /\ faulted' = TRUE
        /\ UNCHANGED pos
        /\ call' = [call EXCEPT ![p].seeks = @ + 1, ![p].res = Err("SeekError")]
        /\ pc' = [pc EXCEPT ![p] = "ret"]
     \/ /\ reader = "nil"
        /\ UNCHANGED <<pos, faulted>>
        /\ call' = [call EXCEPT ![p].res = Panic]
        /\ pc' = [pc EXCEPT ![p] = "ret"]
  /\ UNCHANGED <<phase, indexText, calls, seqs, seqNames, src, reader, bufOff, buf, resultBuf,
                 mutex, trial>>

Fill(p) ==
  /\ pc[p] = "fill"
  /\ \E mode \in ReadModes :
       LET want == Max(bufSize, call[p].n)
           f == FillOp(Eng, call[p].off, call[p].n, mode)
       IN /\ ReadOutcome(Eng, want, call[p].n, mode).possible
          /\ mode \in FaultModes => ~faulted
          /\ faulted' = (faulted \/ mode \in FaultModes)
          /\ SetEng(f.E)
          /\ call' = [call EXCEPT ![p].rd = f.rd, ![p].res = f.res, ![p].reads = @ + 1,
                                  ![p].lo = IF f.res = NoRes THEN 0 ELSE call[p].lo]
          /\ pc' = [pc EXCEPT ![p] = IF f.res = NoRes THEN "walk" ELSE "ret"]
  /\ UNCHANGED <<phase, indexText, calls, seqs, seqNames, src, reader, mutex, trial>>

Walk(p) ==
  /\ pc[p] = "walk"
  /\ LET c == call[p]
         w == WalkOp(Eng, seqs[c.name], c.start, c.end, c.off, c.n, c.lo)
     IN /\ SetEng(w.E)
        /\ call' = [call EXCEPT ![p].res = w.res]
  /\ pc' = [pc EXCEPT ![p] = "ret"]
  /\ UNCHANGED <<phase, indexText, calls, seqs, seqNames, src, reader, mutex, faulted, trial>>

\* Mutation: the mutex is released on the successful return only.
UnlockOnSuccess(p) ==
  /\ pc[p] = "ret"
  /\ mutex' = IF call[p].res.kind = "ok" THEN 0 ELSE mutex
  /\ pc' = [pc EXCEPT ![p] = "idle"]
  /\ call' = [call EXCEPT ![p] = NoCall]
  /\ UNCHANGED <<phase, indexText, calls, seqs, seqNames, src, reader, pos, bufOff, buf,
                 resultBuf, faulted, trial>>

\* The deferred mutex.Unlock() and the return to the caller.
Unlock(p) ==
  /\ pc[p] = "ret"
  /\ mutex' = 0
  /\ pc' = [pc EXCEPT ![p] = "idle"]
  /\ call' = [call EXCEPT ![p] = NoCall]
  /\ UNCHANGED <<phase, indexText, calls, seqs, seqNames, src, reader, pos, bufOff, buf,
                 resultBuf, faulted, trial>>

GetStep(p) ==
  \/ CallGet(p)
  \/ Lock(p)
  \/ Begin(p)
  \/ Seek(p)
  \/ Fill(p)
  \/ Walk(p)
  \/ Unlock(p)

\* One caller at a time.
Next ==
  \/ NewIndexed
  \/ \E p \in Solo : GetStep(p)

Spec == Init /\ [][Next]_vars

\* Several callers on one engine.
NextConc ==
  \/ NewIndexed
  \/ \E p \in Callers : GetStep(p)

SpecConc == Init /\ [][NextConc]_vars

\* Scheduling: a caller inside Get goes on running, and a caller blocked in
\* mutex.Lock() gets the mutex when it is free again and again (sync.Mutex
\* hands the mutex to a waiter that has waited long).
Fairness ==
  \A p \in Callers :
    /\ SF_vars(Lock(p))
    /\ WF_vars(Begin(p) \/ Seek(p) \/ Fill(p) \/ Walk(p) \/ Unlock(p))

\* The fair runs are those of the engines over the longest sequence, with and
\* without its last line break, and of the engine without a byte source; the
\* callers ask for the whole sequence, its first and its last base, an empty
\* range and a name the index lacks.
FairCalls ==
  {<<Name1, 0, MaxSeqLen>>, <<Name1, 0, 1>>, <<Name1, MaxSeqLen - 1, MaxSeqLen>>,
   <<Name1, 1, 0>>, <<Absent, 0, 1>>}
FairInputs ==
  {[Generated(MaxLineBase, MaxNewline, MaxSeqLen, term) EXCEPT !.calls = FairCalls] :
     term \in BOOLEAN} \cup {NilInput}

NewIndexedFair == NewIndexedOn(FairInputs)

NextFair ==
  \/ NewIndexedFair
  \/ \E p \in Callers : GetStep(p)

SpecFair == Init /\ [][NextFair]_vars /\ Fairness

(***************************************************************************)
(* Tests that make calls back to back on an idle engine whose reader       *)
(* behaves as a file: the same call twice, and the three calls of a round  *)
(* trip in any order.  trial keeps their results until the next call,     *)
(* and a test starts only when no results are kept.                        *)
(***************************************************************************)
Idle == phase = "ready" /\ mutex = 0 /\ trial = NoTrial /\ \A p \in Callers : pc[p] = "idle"

GetTwice ==
  /\ Idle
  /\ \E c \in calls :
       LET a == GetOp(Eng, c[1], c[2], c[3], "file")
           b == GetOp(a.E, c[1], c[2], c[3], "file")
       IN /\ SetEng(b.E)
          /\ trial' = [NoTrial EXCEPT !.kind = "twice", !.name = c[1], !.k = c[2],
                                      !.mid = c[3], !.r1 = a.res, !.r2 = b.res]
  /\ UNCHANGED <<phase, indexText, calls, seqs, seqNames, src, reader, mutex, pc, call, faulted>>

Orders == {<<1, 2, 3>>, <<1, 3, 2>>, <<2, 1, 3>>, <<2, 3, 1>>, <<3, 1, 2>>, <<3, 2, 1>>}

\* Get(name, 0, k), Get(name, k, length) and Get(name, 0, length), made in the
\* order o; r1, r2 and r3 are their results.
RoundTrip ==
  /\ Idle
  /\ \E name \in DOMAIN seqs : \E k \in 1..(seqs[name].length - 1) : \E o \in Orders :
       LET c == <<<<0, k>>, <<k, seqs[name].length>>, <<0, seqs[name].length>>>>
           x1 == GetOp(Eng, name, c[o[1]][1], c[o[1]][2], "file")
           x2 == GetOp(x1.E, name, c[o[2]][1], c[o[2]][2], "file")
           x3 == GetOp(x2.E, name, c[o[3]][1], c[o[3]][2], "file")
           resOf(i) == IF o[1] = i THEN x1.res ELSE IF o[2] = i THEN x2.res ELSE x3.res
       IN /\ SetEng(x3.E)
          /\ trial' = [NoTrial EXCEPT !.kind = "round", !.name = name, !.k = k,
                                      !.r1 = resOf(1), !.r2 = resOf(2), !.r3 = resOf(3)]
  /\ UNCHANGED <<phase, indexText, calls, seqs, seqNames, src, reader, mutex, pc, call, faulted>>

(***************************************************************************)
(* The operations that use the index alone.                                *)
(***************************************************************************)
\* Len(seqName).
LenOp(name) ==
  IF name \in DOMAIN seqs THEN [kind |-> "ok", val |-> seqs[name].length]
  ELSE [kind |-> "err", val |-> 0]

LenCall ==
  /\ Idle
  /\ \E name \in DOMAIN seqs \cup {Absent} :
       trial' = [NoTrial EXCEPT !.kind = "len", !.name = name, !.len = LenOp(name)]
  /\ UNCHANGED <<phase, indexText, calls, seqs, seqNames, src, reader, pos, bufOff, buf,
                 resultBuf, mutex, pc, call, faulted>>

\* SeqNames() returns f.seqNames.
SeqNamesCall ==
  /\ Idle
  /\ trial' = [NoTrial EXCEPT !.kind = "names", !.names = seqNames]
  /\ UNCHANGED <<phase, indexText, calls, seqs, seqNames, src, reader, pos, bufOff, buf,
                 resultBuf, mutex, pc, call, faulted>>

\* The loop of FaiToReferenceLengths over SeqNames(): newMap[ref] = Len(ref).
RECURSIVE FaiMap(_, _, _)
FaiMap(m, names, i) ==
  IF i > Len(names) THEN <<>>
  ELSE LET rest == FaiMap(m, names, i + 1)
       IN [n \in DOMAIN rest \cup {names[i]} |->
             IF n = names[i] THEN m[names[i]].length ELSE rest[n]]

\* FaiToReferenceLengths(index): an engine of its own on a nil reader, built from
\* the text; here the text is the one the engine of the state was built from.
FaiToReferenceLengths ==
  /\ phase # "new"
  /\ trial = NoTrial
  /\ \A p \in Callers : pc[p] = "idle"
  /\ LET parsed == parseIndex(indexText) IN
       IF parsed.kind = "ok"
       THEN \E names \in SeqNamesOrders(SeqsOf(parsed.entries)) :
              trial' = [NoTrial EXCEPT !.kind = "fai",
                          !.fai = [kind |-> "ok", map |-> FaiMap(SeqsOf(parsed.entries), names, 1)]]
       ELSE trial' = [NoTrial EXCEPT !.kind = "fai",
                        !.fai = [kind |-> parsed.kind, map |-> <<>>]]
  /\ UNCHANGED <<phase, indexText, calls, seqs, seqNames, src, reader, pos, bufOff, buf,
                 resultBuf, mutex, pc, call, faulted>>

\* NewIndexed once more on the same index text: the seqNames of the second engine.
NewIndexedAgain ==
  /\ Idle
  /\ \E names \in SeqNamesOrders(SeqsOf(parseIndex(indexText).entries)) :
       trial' = [NoTrial EXCEPT !.kind = "again", !.names = names]
  /\ UNCHANGED <<phase, indexText, calls, seqs, seqNames, src, reader, pos, bufOff, buf,
                 resultBuf, mutex, pc, call, faulted>>

NextMeta == Next \/ LenCall \/ SeqNamesCall \/ FaiToReferenceLengths \/ NewIndexedAgain

SpecMeta == Init /\ [][NextMeta]_vars

NextTwice == Next \/ GetTwice

SpecTwice == Init /\ [][NextTwice]_vars

NextRound == Next \/ RoundTrip

SpecRound == Init /\ [][NextRound]_vars

(***************************************************************************)
(* What the claims speak of.                                               *)
(***************************************************************************)
\* The place in the source of base p of a sequence, by the index format: the
\* sequence starts at offset and every lineBase bases take lineWidth bytes.
PhysPos(ent, p) == ent.offset + p + (ent.lineWidth - ent.lineBase) * (p \div ent.lineBase)

\* The source is laid out as the entry says: every base is where the entry puts
\* it and is no line-break byte, and the bytes between two lines are line breaks.
LaidOut(ent) ==
  /\ ent.lineBase >= 1
  /\ ent.lineWidth >= ent.lineBase
  /\ \A q \in 0..(ent.length - 1) :
       /\ PhysPos(ent, q) < Len(src)
       /\ src[PhysPos(ent, q) + 1] \notin LineBreakByte
       /\ (q + 1 < ent.length /\ (q + 1) % ent.lineBase = 0) =>
            \A j \in 1..(ent.lineWidth - ent.lineBase) :
              src[PhysPos(ent, q) + j + 1] \in LineBreakByte

\* The last line of the sequence, full or not, ends with its line break.
Terminated(ent) ==
  \A j \in 1..(ent.lineWidth - ent.lineBase) :
    /\ PhysPos(ent, ent.length - 1) + j < Len(src)
    /\ src[PhysPos(ent, ent.length - 1) + j + 1] \in LineBreakByte

\* The engine is built, every entry of its index describes the source, lines
\* all ended, and the source has behaved as a file so far.
Regular ==
  /\ phase = "ready"
  /\ ~faulted
  /\ \A name \in DOMAIN seqs : LaidOut(seqs[name]) /\ Terminated(seqs[name])

Returned(p) == pc[p] = "ret"
ValidCall(c) ==
  /\ c.name \in DOMAIN seqs
  /\ c.start < c.end
  /\ c.end <= seqs[c.name].length

C2_SameCallSameResult ==
  trial.kind = "twice" => trial.r1 = trial.r2

InGet == {"begin", "seek", "fill", "walk", "ret"}
FreshEng == [pos |-> 0, bufOff |-> 0, buf |-> NilSlice, resultBuf |-> NilSlice]

C4_OneHolder ==
  /\ \A p, q \in Callers : (pc[p] \in InGet /\ pc[q] \in InGet) => p = q
  /\ \A p \in Callers : pc[p] \in InGet <=> mutex = p

C4_SerialResult ==
  \A p \in Callers :
    (Returned(p) /\ Regular /\ ValidCall(call[p])) =>
      call[p].res = GetOp(FreshEng, call[p].name, call[p].start, call[p].end, "file").res

C4_ChangeUnderLock ==
  Eng' # Eng => \E p \in Callers : mutex = p /\ pc[p] \in InGet /\ pc'[p] # pc[p]

\* C4: one caller at a time holds the mutex, a returned call gives the string of
\* a call that ran alone, and the engine changes only in the holder's steps.
C4_Serialized ==
  /\ [](C4_OneHolder /\ C4_SerialResult)
  /\ [][C4_ChangeUnderLock]_vars

\* One caller returns a string over a line break while the other waits for the mutex.
C4_Witness ==
  \E p, q \in Callers :
    /\ Returned(p) /\ Regular /\ ValidCall(call[p])
    /\ call[p].res.kind = "ok"
    /\ call[p].n > call[p].end - call[p].start
    /\ call[p].rd.err # "none"
    /\ pc[q] = "lock"

(***************************************************************************)
(* C5.  Over a source that ends with the line break of the sequence's last *)
(* line, the byte range of Get(name, 0, length) ends at or before the end  *)
(* of the source, and the call does not fail with the unexpected-EOF error.*)
(***************************************************************************)
WholeCall(c) ==
  /\ ValidCall(c)
  /\ c.start = 0
  /\ c.end = seqs[c.name].length
  /\ LaidOut(seqs[c.name])
  /\ Terminated(seqs[c.name])

\* C5: the byte range of Get(name, 0, length) lies within a terminated source
\* and the call does not fail with the unexpected-EOF error.
C5_WholeWithinSource ==
  \A p \in Callers :
    (phase = "ready" /\ pc[p] \in {"seek", "fill", "walk", "ret"} /\ WholeCall(call[p])) =>
      /\ call[p].off + call[p].n <= Len(src)
      /\ (~faulted => call[p].res # Err("UnexpectedEOF"))

\* The whole of a sequence of several full lines was read from the source.
C5_Witness ==
  \E p \in Callers :
    /\ phase = "ready" /\ Returned(p) /\ WholeCall(call[p])
    /\ seqs[call[p].name].lineWidth > seqs[call[p].name].lineBase
    /\ call[p].end > seqs[call[p].name].lineBase
    /\ call[p].end % seqs[call[p].name].lineBase = 0
    /\ call[p].rd.err # "none"
    /\ call[p].res.kind = "ok"

(***************************************************************************)
(* C6.  As claimed: for a name of the index and every start x,             *)
(* Get(name, x, length + 1) fails with the out-of-bounds error.            *)
(***************************************************************************)
PastEnd(c) == c.name \in DOMAIN seqs /\ c.end = seqs[c.name].length + 1

C6_Original ==
  \A p \in Callers :
    (Returned(p) /\ PastEnd(call[p])) => call[p].res = Err("OutOfBounds")

\* C6 as amended: for every start x <= length, Get(name, x, length + 1) fails
\* with the out-of-bounds error (for x > length the range is empty and the
\* error is the invalid-range one).
C6_PastEndOutOfBounds ==
  \A p \in Callers :
    (Returned(p) /\ PastEnd(call[p])) =>
      call[p].res = IF call[p].start < call[p].end THEN Err("OutOfBounds")
                    ELSE Err("InvalidRange")

C6_Witness ==
  \E p \in Callers :
    /\ Returned(p) /\ PastEnd(call[p])
    /\ call[p].start = seqs[call[p].name].length
    /\ call[p].res = Err("OutOfBounds")

(***************************************************************************)
(* C7.  As claimed: over the example of the specification,                 *)
(* Get("seq1", 2, 8) returns "GTAC".                                       *)
(***************************************************************************)
WorkedCall(p) ==
  /\ phase = "ready" /\ ~faulted
  /\ indexText = WorkedIndex /\ src = WorkedSrc
  /\ Returned(p)
  /\ call[p].name = SeqOne /\ call[p].start = 2 /\ call[p].end = 8

C7_Original ==
  \A p \in Callers : WorkedCall(p) => call[p].res = Ok(<<"G", "T", "A", "C">>)

\* C7 as amended: Get("seq1", 2, 8) returns the six bases "GTACGT".
C7_WorkedExample ==
  \A p \in Callers : WorkedCall(p) => call[p].res = Ok(<<"G", "T", "A", "C", "G", "T">>)

C7_Witness ==
  \E p \in Callers : WorkedCall(p) /\ call[p].res.kind = "ok" /\ call[p].rd.err # "none"

(***************************************************************************)
(* C8.  As claimed: for a name the index lacks, Get fails with the         *)
(* not-found error whatever start and end are.                             *)
(***************************************************************************)
C8_Original ==
  \A p \in Callers :
    (Returned(p) /\ call[p].name \notin DOMAIN seqs) => call[p].res = Err("NotFound")

\* C8 as amended: Get checks start < end before it looks the name up; for a
\* name the index lacks it fails with the not-found error when start < end and
\* with the invalid-range error when start >= end.
C8_AbsentName ==
  \A p \in Callers :
    (Returned(p) /\ call[p].name \notin DOMAIN seqs) =>
      call[p].res = IF call[p].start < call[p].end THEN Err("NotFound")
                    ELSE Err("InvalidRange")

C8_Witness ==
  \E p \in Callers :
    /\ Returned(p)
    /\ call[p].name = Absent
    /\ call[p].start >= call[p].end
    /\ call[p].res = Err("InvalidRange")

(***************************************************************************)
(* C9.  When the Read of a refill returns an error other than io.EOF, Get  *)
(* fails with that error, however many bytes came with it; and Get reports *)
(* the unexpected-EOF error only when the source ended before the n bytes  *)
(* asked for.                                                              *)
(***************************************************************************)
C9_ReadErrorPropagates ==
  \A p \in Callers :
    (Returned(p) /\ call[p].rd.err # "none") =>
      /\ (call[p].rd.err = "IOErr" => call[p].res = Err("IOError"))
      /\ (call[p].res = Err("UnexpectedEOF") => call[p].rd.avail < call[p].n)

(***************************************************************************)
(* C10.  NewIndexed fails with a format error whenever a line of the index *)
(* is not exactly five tab-separated fields: a name without white space,   *)
(* then four decimal numbers that fit 64 bits.                             *)
(***************************************************************************)
RECURSIVE TabFields(_)
TabFields(line) ==
  IF \E i \in 1..Len(line) : line[i] = TAB
  THEN LET i == CHOOSE k \in 1..Len(line) :
                  line[k] = TAB /\ \A j \in 1..(k - 1) : line[j] # TAB
       IN <<SubSeq(line, 1, i - 1)>> \o TabFields(SubSeq(line, i + 1, Len(line)))
  ELSE <<line>>

IsNumber(f) == f # <<>> /\ (\A i \in 1..Len(f) : f[i] \in Digit) /\ ~ExceedsUint64(f)

WellFormedLine(line) ==
  LET f == TabFields(line) IN
    /\ Len(f) = 5
    /\ f[1] # <<>>
    /\ \A i \in 1..Len(f[1]) : f[1][i] \notin Space
    /\ \A j \in 2..5 : IsNumber(f[j])

\* C10: once NewIndexed has returned on an index with a line that is not well
\* formed, it has returned a format error.
C10_MalformedRejected ==
  (phase # "new" /\ \E i \in 1..Len(ScanLines(indexText)) :
                      ~WellFormedLine(ScanLines(indexText)[i]))
    => phase = "formatError"

(***************************************************************************)
(* C11.  When a name stands on several lines of the index, Len, Get and    *)
(* FaiToReferenceLengths use the numbers of the last of these lines, and   *)
(* the name is in SeqNames once.                                           *)
(***************************************************************************)
IndexLines == ScanLines(indexText)
AllWellFormed == \A i \in 1..Len(IndexLines) : WellFormedLine(IndexLines[i])
NamedInIndex == {TabFields(IndexLines[i])[1] : i \in 1..Len(IndexLines)}

\* What the last line of the index that starts with name says.
LastLine(name) ==
  LET i == CHOOSE k \in 1..Len(IndexLines) :
             /\ TabFields(IndexLines[k])[1] = name
             /\ \A j \in (k + 1)..Len(IndexLines) : TabFields(IndexLines[j])[1] # name
      f == TabFields(IndexLines[i])
  IN [name |-> name, length |-> DecValue(f[2]), offset |-> DecValue(f[3]),
      lineBase |-> DecValue(f[4]), lineWidth |-> DecValue(f[5])]

\* C11: on an index of well-formed lines, the catalog holds for each name the
\* numbers of its last line; Len and FaiToReferenceLengths return that line's
\* length, Get bounds and places its range by that line, and SeqNames holds the
\* name once.
C11_LastLineWins ==
  (phase = "ready" /\ AllWellFormed) =>
    /\ DOMAIN seqs = NamedInIndex
    /\ \A name \in NamedInIndex :
         /\ seqs[name] = LastLine(name)
         /\ Cardinality({i \in 1..Len(seqNames) : seqNames[i] = name}) = 1
    /\ (trial.kind = "len" /\ trial.name \in NamedInIndex) =>
         trial.len = [kind |-> "ok", val |-> LastLine(trial.name).length]
    /\ trial.kind = "fai" =>
         /\ trial.fai.kind = "ok"
         /\ DOMAIN trial.fai.map = NamedInIndex
         /\ \A name \in NamedInIndex : trial.fai.map[name] = LastLine(name).length
    /\ \A p \in Callers :
         (Returned(p) /\ call[p].name \in NamedInIndex /\ call[p].start < call[p].end) =>
           /\ call[p].res = Err("OutOfBounds") <=> call[p].end > LastLine(call[p].name).length
           /\ call[p].res # Err("OutOfBounds") =>
                call[p].off = PhysPos(LastLine(call[p].name), call[p].start)

\* Len of the name that stands on two lines returned the length of the second.
C11_Witness ==
  /\ phase = "ready"
  /\ indexText = DuplicateIndex
  /\ trial.kind = "len"
  /\ trial.name = Name1
  /\ trial.len = [kind |-> "ok", val |-> 2]

(***************************************************************************)
(* C12.  SeqNames returns each name of the catalog once, by non-decreasing *)
(* offset, and the same sequence every time, whatever Len and Get calls    *)
(* the engine has served.                                                  *)
(***************************************************************************)
OnceEachByOffset(names) ==
  /\ {names[i] : i \in 1..Len(names)} = DOMAIN seqs
  /\ Len(names) = Cardinality(DOMAIN seqs)
  /\ \A i \in 1..(Len(names) - 1) : seqs[names[i]].offset <= seqs[names[i + 1]].offset

C12_NamesReturned ==
  (phase = "ready" /\ trial.kind = "names") =>
    /\ trial.names = seqNames
    /\ OnceEachByOffset(trial.names)

C12_NamesKept == phase = "ready" => seqNames' = seqNames

\* C12: a call of SeqNames returns the catalog's names once each by
\* non-decreasing offset, and no step after construction changes what it returns.
C12_SeqNamesStable == []C12_NamesReturned /\ [][C12_NamesKept]_vars

\* SeqNames was called, after a Get that read the source, on the engine whose
\* index lists the later sequence first.
C12_Witness ==
  /\ phase = "ready"
  /\ indexText = ReversedIndex
  /\ pos > 0
  /\ trial.kind = "names"
  /\ trial.names = <<Name1, Name2>>

(***************************************************************************)
(* C13.  NewIndexed, Len, SeqNames, FaiToReferenceLengths and a Get that   *)
(* fails its checks do not touch the byte source or the window, and so     *)
(* they complete on an engine whose reader is nil.                         *)
(***************************************************************************)
\* The step is one of the operations the claim names.
IndexOnlyStep ==
  \/ phase = "new" /\ phase' # "new"
  \/ trial' # trial /\ trial'.kind \in {"len", "names", "fai"}
  \/ \E p \in Callers : pc[p] = "begin" /\ pc'[p] = "ret"

C13_NoSourceUse ==
  IndexOnlyStep => UNCHANGED <<pos, bufOff, buf, resultBuf, faulted>>

C13_NilComplete ==
  /\ \A p \in Callers :
       (Returned(p) /\ ~ValidCall(call[p])) =>
         /\ call[p].res.kind = "err"
         /\ call[p].seeks = 0
         /\ call[p].reads = 0
  /\ (phase = "ready" /\ reader = "nil") =>
       /\ trial.kind = "len" =>
            trial.len.kind = IF trial.name \in DOMAIN seqs THEN "ok" ELSE "err"
       /\ trial.kind = "names" => trial.names = seqNames
       /\ trial.kind = "fai" => trial.fai.kind = "ok"

\* C13: the index-only operations and a Get that fails its checks leave the
\* reader's position and the window alone, count no Seek and no Read, and
\* return their results on a nil reader too.
C13_IndexOnly == []C13_NilComplete /\ [][C13_NoSourceUse]_vars

\* On an engine with a nil reader, a Get past the end of the sequence returned its error.
C13_Witness ==
  /\ phase = "ready"
  /\ reader = "nil"
  /\ \E p \in Callers : Returned(p) /\ call[p].res = Err("OutOfBounds")

(***************************************************************************)
(* C14.  A Get returns after at most one Seek and one Read and gives the   *)
(* mutex back however it returns; under fair scheduling every caller that  *)
(* waits for the mutex gets it and completes its call.                     *)
(***************************************************************************)
C14_OneSeekOneRead ==
  \A p \in Callers :
    /\ call[p].seeks <= 1
    /\ call[p].reads <= call[p].seeks
    /\ pc[p] \in {"idle", "lock"} => mutex # p

C14_Completes == \A p \in Callers : (pc[p] = "lock") ~> (pc[p] = "idle")

\* C14: no call seeks or reads twice, no caller outside Get holds the mutex,
\* and a caller waiting in Lock always comes to return from its Get.
C14_GetTerminates == []C14_OneSeekOneRead /\ C14_Completes

\* One caller waits for the mutex while the other, having done its one Seek and
\* one Read, is about to return an error.
C14_Witness ==
  \E p, q \in Callers :
    /\ pc[p] = "lock"
    /\ Returned(q)
    /\ call[q].seeks = 1 /\ call[q].reads = 1
    /\ call[q].res.kind = "err"

(***************************************************************************)
(* C15.  As claimed: between Get calls, also after a Get whose refill      *)
(* failed, byte i of the window is the byte of the source at bufOff + i,   *)
(* for every i below the window's length; and the window changes only      *)
(* when a refill succeeds.                                                 *)
(***************************************************************************)
C15_WindowFaithful ==
  (phase = "ready" /\ mutex = 0) =>
    /\ bufOff + buf.len <= Len(src)
    /\ \A i \in 0..(buf.len - 1) : ByteAt(buf.arr, i) = src[bufOff + i + 1]

C15_OnlyRefill ==
  <<bufOff, buf>>' # <<bufOff, buf>> =>
    \E p \in Callers : pc[p] = "fill" /\ pc'[p] = "walk"

\* C15: the window is faithful to the source whenever no Get is running, and
\* only a refill that succeeds changes it.
C15_CacheCoherent == []C15_WindowFaithful /\ [][C15_OnlyRefill]_vars

(***************************************************************************)
(* C16.  As claimed: over a source laid out as the index says, a Get that  *)
(* succeeds returns the bases at positions start .. end - 1 of the         *)
(* sequence, in order, whether the window or a refill served it.           *)
(***************************************************************************)
\* The bases of the sequence at positions start .. end - 1, by the layout.
BasesOf(ent, start, end) == [i \in 1..(end - start) |-> src[PhysPos(ent, start + i - 1) + 1]]

C16_ExactBases ==
  \A p \in Callers :
    (/\ phase = "ready"
     /\ Returned(p)
     /\ ValidCall(call[p])
     /\ LaidOut(seqs[call[p].name])
     /\ call[p].res.kind = "ok") =>
      call[p].res.str = BasesOf(seqs[call[p].name], call[p].start, call[p].end)

(***************************************************************************)
(* C17.  As claimed: a range inside the window is served with no Seek and  *)
(* no Read and leaves the window as it is; any other range makes one Seek  *)
(* to off and one Read into a buffer of max(n, 8192) bytes, and on success *)
(* the window starts at off and holds the range.                           *)
(***************************************************************************)
\* The range of the call lies inside the window.
Inside(c) == c.off >= bufOff /\ c.off + c.n <= bufOff + buf.len

\* The steps of a call: the window test sends a range inside the window to the
\* walk and any other to Seek, a call served from the window leaves the reader
\* and the window alone, and Seek lands on off.
C17_Steps ==
  \A p \in Callers :
    /\ (pc[p] = "begin" /\ pc'[p] # "ret") =>
         /\ pc'[p] = (IF Inside(call'[p]) THEN "walk" ELSE "seek")
         /\ UNCHANGED <<pos, bufOff, buf>>
    /\ (pc[p] = "walk" /\ call[p].seeks = 0) =>
         /\ call'[p].seeks = 0 /\ call'[p].reads = 0
         /\ UNCHANGED <<pos, bufOff, buf>>
    /\ (pc[p] = "seek" /\ pc'[p] = "fill") => pos' = call[p].off

\* What holds of every call on an engine that has a byte source.
C17_Counts ==
  \A p \in Callers :
    reader # "nil" =>
      /\ call[p].seeks <= 1 /\ call[p].reads <= call[p].seeks
      /\ pc[p] = "fill" => call[p].seeks = 1
      /\ (Returned(p) /\ ValidCall(call[p])) =>
           /\ call[p].reads = 1 => call[p].rd.want = Max(call[p].n, bufSize)
           /\ (call[p].seeks = 1 /\ call[p].res.kind = "ok") =>
                bufOff = call[p].off /\ buf.len >= call[p].n

C17_ReadAfterEverySeek ==
  \A p \in Callers :
    (reader # "nil" /\ Returned(p) /\ call[p].seeks = 1) => call[p].reads = 1

C17_Original == [](C17_Counts /\ C17_ReadAfterEverySeek) /\ [][C17_Steps]_vars

C17_ReadAfterGoodSeek ==
  \A p \in Callers :
    (reader # "nil" /\ Returned(p) /\ call[p].seeks = 1) =>
      (call[p].reads = 1 <=> call[p].res # Err("SeekError"))

\* C17 as amended: a range inside the window is served with no Seek and no Read
\* and leaves the window as it is; any other range makes one Seek to off and,
\* unless the Seek fails, one Read into a buffer of max(n, 8192) bytes (after a
\* failed Seek there is no Read); on success the window starts at off and holds
\* the range.
C17_WindowPolicy == [](C17_Counts /\ C17_ReadAfterGoodSeek) /\ [][C17_Steps]_vars

\* A call was served from the window a refill of an earlier call left.
C17_Witness ==
  \E p \in Callers :
    /\ Returned(p) /\ ValidCall(call[p])
    /\ reader # "nil"
    /\ call[p].seeks = 0
    /\ call[p].res.kind = "ok"
    /\ buf.len > 0 /\ buf.len < bufSize

(***************************************************************************)
(* C18.  In the walk of Get over the bytes read, for an entry with         *)
(* lineBase >= 1 and lineWidth >= lineBase and a valid range: the cycle    *)
(* position starts below lineBase, no byte is written past the end of the  *)
(* result buffer, and the walk copies exactly end - start bytes, so the    *)
(* string returned holds nothing of an earlier result.                     *)
(***************************************************************************)
SoundEntry(ent) == ent.lineBase >= 1 /\ ent.lineWidth >= ent.lineBase

\* The bytes of buf the walk of the call goes over.
ViewOf(c) == [i \in 1..c.n |-> ByteAt(buf.arr, c.lo + i - 1)]

\* What the walk of the call copies.
CopiedOf(c) == Copied(ViewOf(c), 1, (c.off - seqs[c.name].offset) % seqs[c.name].lineWidth,
                      seqs[c.name])

C18_WalkExact ==
  \A p \in Callers :
    (/\ phase = "ready"
     /\ ValidCall(call[p])
     /\ SoundEntry(seqs[call[p].name])
     /\ \/ pc[p] = "walk"
        \/ Returned(p) /\ call[p].res.kind \in {"ok", "panic"} /\ reader # "nil") =>
      /\ (call[p].off - seqs[call[p].name].offset) % seqs[call[p].name].lineWidth
           < seqs[call[p].name].lineBase
      /\ Len(CopiedOf(call[p])) = call[p].end - call[p].start
      /\ Returned(p) =>
           /\ call[p].res = Ok(CopiedOf(call[p]))
           /\ resultBuf.len = call[p].end - call[p].start

\* A walk over a line break has filled a result buffer that held a longer result.
C18_Witness ==
  \E p \in Callers :
    /\ phase = "ready" /\ Returned(p) /\ ValidCall(call[p])
    /\ call[p].res.kind = "ok"
    /\ call[p].n > call[p].end - call[p].start
    /\ resultBuf.cap > call[p].end - call[p].start

(***************************************************************************)
(* C19.  As claimed: the number of line breaks in the span of              *)
(* Get(name, start, end) is 0 when the range fits on its first line and    *)
(* else the number of line breaks between base start and base end - 1;     *)
(* the span does not hold the line break behind the last base asked for.   *)
(***************************************************************************)
\* The line breaks between base start and base end - 1.
Crossed(ent, start, end) == (end - 1) \div ent.lineBase - start \div ent.lineBase

C19_LineBreaksCounted ==
  \A p \in Callers :
    (/\ phase = "ready"
     /\ pc[p] \in {"seek", "fill", "walk", "ret"}
     /\ ValidCall(call[p])
     /\ SoundEntry(seqs[call[p].name])) =>
      LET ent == seqs[call[p].name]
          start == call[p].start
          end == call[p].end
      IN /\ newlinesToRead(ent, start, end) = Crossed(ent, start, end)
         /\ call[p].n = (end - start) + Crossed(ent, start, end) * (ent.lineWidth - ent.lineBase)

(***************************************************************************)
(* C20.  As claimed: two engines built from one index text return the same *)
(* sequence from SeqNames, also when names share an offset.                *)
(***************************************************************************)
C20_SameOrder ==
  (phase = "ready" /\ trial.kind = "again") => trial.names = seqNames

=============================================================================
